---- MODULE Spec2Model ----
(***************************************************************************)
(* Model of crates/api/src/event/mouse.rs of orbtk: the hit-test predicate *)
(* check_mouse_condition, the six mouse event handlers (handles_event and  *)
(* handle_event) and the MouseHandler registration methods.                *)
(*                                                                         *)
(* Coordinates are f64 in the source.  They are modelled as fixed-point    *)
(* numbers with one fractional bit: the integer v stands for v / Unit, so  *)
(* that the halving of a whole width is exact.                             *)
(***************************************************************************)
EXTENDS Integers, Sequences, FiniteSets, TLC

\* ------------------------------------------------------------------ bounds
Unit == 2
MaxPos == 1
MaxSize == 1
MaxBoundsOrigin == 1
MaxCoord == 1
MaxHandlers == 2
CtxMod == 2

\* ---------------------------------------------------------------- variables
VARIABLES
    widget,         \* WidgetContainer snapshot: enabled, bounds, position
    edge_inclusive, \* whether Rectangle::contains accepts the right/bottom edge
    mouse_position, \* the point last given to check_mouse_condition, if any
    hit,            \* the value check_mouse_condition returned, if any
    widget_before,  \* the snapshot as it was when check_mouse_condition was called
    template,       \* the widget under construction: its handler set
    registered,     \* the registration calls made so far: <<method, callback>>
    event,          \* the EventBox of the current dispatch pass, if any
    state_context,  \* the StatesContext handed to the callbacks
    last            \* what the last handle_event call did, if any

geom_vars == <<widget, edge_inclusive, mouse_position, hit, widget_before>>
disp_vars == <<template, registered, event, state_context, last>>
vars == <<widget, edge_inclusive, mouse_position, hit, widget_before,
          template, registered, event, state_context, last>>

\* An absent value is the empty sequence, a present one a sequence of one.
None == <<>>
Some(v) == <<v>>

\* ------------------------------------------------------------- geometry
Point_new(x, y) == [x |-> x, y |-> y]

Rectangle_new(x, y, width, height) ==
    [x |-> x, y |-> y, width |-> width, height |-> height]

set_x(rect, x) == [rect EXCEPT !.x = x]

set_y(rect, y) == [rect EXCEPT !.y = y]

\* Rectangle::contains.  The left/top edge belongs to the rectangle; whether
\* the right/bottom edge does is left open, so both outcomes are modelled.
contains(rect, point, inclusive) ==
    /\ point[1] >= rect.x
    /\ point[2] >= rect.y
    /\ IF inclusive
       THEN point[1] <= rect.x + rect.width /\ point[2] <= rect.y + rect.height
       ELSE point[1] < rect.x + rect.width /\ point[2] < rect.y + rect.height

\* WidgetContainer::get::<T>(name)
get(w, name) ==
    CASE name = "enabled" -> w.enabled
      [] name = "bounds" -> w.bounds
      [] name = "position" -> w.position

\* Variant: the enabled attribute is not consulted.
check_mouse_condition_no_enabled(pos, w, inclusive) ==
    LET bounds == get(w, "bounds")
        position == get(w, "position")
        rect0 == Rectangle_new(0, 0, bounds.width, bounds.height)
        rect1 == set_x(rect0, position.x)
        rect2 == set_y(rect1, position.y)
    IN  contains(rect2, <<pos.x, pos.y>>, inclusive)

\* Variant: the bounds rectangle itself is translated by the position.
check_mouse_condition_translate(pos, w, inclusive) ==
    LET enabled == get(w, "enabled")
        bounds == get(w, "bounds")
        position == get(w, "position")
        rect1 == set_x(bounds, bounds.x + position.x)
        rect2 == set_y(rect1, bounds.y + position.y)
    IN  IF ~enabled THEN FALSE
        ELSE contains(rect2, <<pos.x, pos.y>>, inclusive)

\* Variant: the width and height are normalised to their absolute values.
check_mouse_condition_abs_size(pos, w, inclusive) ==
    LET enabled == get(w, "enabled")
        bounds == get(w, "bounds")
        position == get(w, "position")
        Abs(v) == IF v < 0 THEN -v ELSE v
        rect0 == Rectangle_new(0, 0, Abs(bounds.width), Abs(bounds.height))
        rect1 == set_x(rect0, position.x)
        rect2 == set_y(rect1, position.y)
    IN  IF ~enabled THEN FALSE
        ELSE contains(rect2, <<pos.x, pos.y>>, inclusive)

\* Variant: the rectangle is placed one pixel up and left of the position.
check_mouse_condition_shifted(pos, w, inclusive) ==
    LET enabled == get(w, "enabled")
        bounds == get(w, "bounds")
        position == get(w, "position")
        rect0 == Rectangle_new(0, 0, bounds.width, bounds.height)
        rect1 == set_x(rect0, position.x - Unit)
        rect2 == set_y(rect1, position.y - Unit)
    IN  IF ~enabled THEN FALSE
        ELSE contains(rect2, <<pos.x, pos.y>>, inclusive)

check_mouse_condition(pos, w, inclusive) ==
    LET enabled == get(w, "enabled")
        bounds == get(w, "bounds")
        position == get(w, "position")
        rect0 == Rectangle_new(0, 0, bounds.width, bounds.height)
        rect1 == set_x(rect0, position.x)
        rect2 == set_y(rect1, position.y)
    IN  IF ~enabled THEN FALSE
        ELSE contains(rect2, <<pos.x, pos.y>>, inclusive)

\* Whole pixels, as fixed-point values.
Positions == {p * Unit : p \in 0..MaxPos}
Sizes == {s * Unit : s \in -1..MaxSize}
BoundsOrigins == {o * Unit : o \in 0..MaxBoundsOrigin}
\* Every fixed-point value from one pixel left of the leftmost widget to half
\* a pixel right of the rightmost edge.
PointCoords == (0 - Unit - 1)..((MaxPos + MaxSize) * Unit + 1)

Widgets ==
    [enabled : BOOLEAN,
     bounds : [x : BoundsOrigins, y : BoundsOrigins, width : Sizes, height : Sizes],
     position : [x : Positions, y : Positions]]

NoTemplate == [name |-> "Button", handlers |-> <<>>]

GeomInit ==
    /\ widget \in Widgets
    /\ edge_inclusive \in BOOLEAN
    /\ mouse_position = None
    /\ hit = None
    /\ widget_before = widget
    /\ template = NoTemplate
    /\ registered = <<>>
    /\ event = None
    /\ state_context = 0
    /\ last = None

\* One call of check_mouse_condition on the snapshot, with any point.
CheckMouseCondition ==
    /\ hit = None
    /\ \E x \in PointCoords, y \in PointCoords :
        /\ mouse_position' = Some(Point_new(x, y))
        /\ hit' = Some(check_mouse_condition(Point_new(x, y), widget, edge_inclusive))
        /\ widget_before' = widget
        /\ UNCHANGED <<widget, edge_inclusive>>
        /\ UNCHANGED disp_vars

GeomNext == CheckMouseCondition

GeomSpec == GeomInit /\ [][GeomNext]_vars

\* ------------------------------------------------------------ event payloads
MouseButtons == {"Left", "Right"}
Coords == 0..MaxCoord

Mouse(button, x, y) == [button |-> button, x |-> x, y |-> y]

MouseMoveEvent(x, y) == [ty |-> "MouseMoveEvent", x |-> x, y |-> y]

ScrollEvent(delta) == [ty |-> "ScrollEvent", delta |-> delta]

MouseUpEvent(button, x, y) ==
    [ty |-> "MouseUpEvent", button |-> button, x |-> x, y |-> y]

ClickEvent(position) == [ty |-> "ClickEvent", position |-> position]

MouseDownEvent(button, x, y) ==
    [ty |-> "MouseDownEvent", button |-> button, x |-> x, y |-> y]

GlobalMouseUpEvent(button, x, y) ==
    [ty |-> "GlobalMouseUpEvent", button |-> button, x |-> x, y |-> y]

EventTypes ==
    {"MouseMoveEvent", "ScrollEvent", "MouseUpEvent", "ClickEvent",
     "MouseDownEvent", "GlobalMouseUpEvent"}

Points == {Point_new(x, y) : x \in Coords, y \in Coords}

Payloads ==
    {MouseMoveEvent(p.x, p.y) : p \in Points}
    \cup {ScrollEvent(p) : p \in Points}
    \cup {ClickEvent(p) : p \in Points}
    \cup UNION {{MouseUpEvent(b, p.x, p.y), MouseDownEvent(b, p.x, p.y),
                 GlobalMouseUpEvent(b, p.x, p.y)} : b \in MouseButtons, p \in Points}

\* ----------------------------------------------------------------- EventBox
\* EventBox::new(event): the payload together with the TypeId of its type.
EventBox_new(payload) == [event |-> payload, event_type |-> payload.ty]

is_type(box, T) == box.event_type = T

downcast_ref(box, T) ==
    IF box.event_type = T
    THEN [is_ok |-> TRUE, value |-> box.event]
    ELSE [is_ok |-> FALSE, value |-> "WrongType"]

\* Result::ok
ok(res) == IF res.is_ok THEN [is_some |-> TRUE, value |-> res.value]
           ELSE [is_some |-> FALSE]

\* ---------------------------------------------------------------- callbacks
\* A user callback is what it returns and whether it writes to the
\* StatesContext.  "x_is_max" is the callback |_, arg| arg.x == MaxCoord.
BoolCallbacks ==
    {[ret |-> "x_is_max", writes |-> TRUE],
     [ret |-> "false", writes |-> FALSE]}

UnitCallbacks == {[ret |-> "unit", writes |-> w] : w \in BOOLEAN}

\* (self.handler)(state_context, arg): the returned value, the StatesContext
\* the callback leaves behind, and the argument it was invoked with.
Invoke(handler, ctx, arg) ==
    [result |-> CASE handler.ret = "true" -> TRUE
                  [] handler.ret = "false" -> FALSE
                  [] handler.ret = "x_is_max" -> (arg.x = MaxCoord)
                  [] handler.ret = "unit" -> "unit",
     state_context |-> IF handler.writes THEN (ctx + 1) % CtxMod ELSE ctx,
     calls |-> <<arg>>]

\* map_or's default: handle_event's outcome when the closure is not run.
NotHandled(ctx) == [result |-> FALSE, state_context |-> ctx, calls |-> <<>>]

\* ----------------------------------------------------------------- handlers
ClickEventHandler(handler) == [kind |-> "Click", handler |-> handler]
MouseDownEventHandler(handler) == [kind |-> "MouseDown", handler |-> handler]
GlobalMouseUpEventHandler(handler) == [kind |-> "GlobalMouseUp", handler |-> handler]
MouseUpEventHandler(handler) == [kind |-> "MouseUp", handler |-> handler]
MouseMoveEventHandler(handler) == [kind |-> "MouseMove", handler |-> handler]
ScrollEventHandler(handler) == [kind |-> "Scroll", handler |-> handler]

Click_handle_event(self, ctx, box) ==
    LET opt == ok(downcast_ref(box, "ClickEvent"))
    IN  \* .map_or(false, |event| ..)
        IF opt.is_some
        THEN Invoke(self.handler, ctx, opt.value.position)
        ELSE NotHandled(ctx)

Click_handles_event(self, box) == is_type(box, "ClickEvent")

MouseDown_handle_event(self, ctx, box) ==
    LET opt == ok(downcast_ref(box, "MouseDownEvent"))
    IN  \* .map_or(false, |event| ..)
        IF opt.is_some
        THEN Invoke(self.handler, ctx, Mouse(opt.value.button, opt.value.x, opt.value.y))
        ELSE NotHandled(ctx)

MouseDown_handles_event(self, box) == is_type(box, "MouseDownEvent")

\* Variant: the global handler reports the event as consumed.
GlobalMouseUp_handle_event_consumes(self, ctx, box) ==
    LET opt == ok(downcast_ref(box, "GlobalMouseUpEvent"))
    IN  \* .map_or(false, |event| ..)
        IF opt.is_some
        THEN [Invoke(self.handler, ctx, Mouse(opt.value.button, opt.value.x, opt.value.y))
                EXCEPT !.result = TRUE]
        ELSE NotHandled(ctx)

GlobalMouseUp_handle_event(self, ctx, box) ==
    LET opt == ok(downcast_ref(box, "GlobalMouseUpEvent"))
    IN  \* .map_or(false, |event| ..)
        IF opt.is_some
        THEN [Invoke(self.handler, ctx, Mouse(opt.value.button, opt.value.x, opt.value.y))
                EXCEPT !.result = FALSE]
        ELSE NotHandled(ctx)

\* Variant: the global handler tests for the local MouseUpEvent.
GlobalMouseUp_handles_event_mouse_up(self, box) == is_type(box, "MouseUpEvent")

GlobalMouseUp_handles_event(self, box) == is_type(box, "GlobalMouseUpEvent")

\* Variant: the local handler decodes the GlobalMouseUpEvent.
MouseUp_handle_event_global(self, ctx, box) ==
    LET opt == ok(downcast_ref(box, "GlobalMouseUpEvent"))
    IN  \* .map_or(false, |event| ..)
        IF opt.is_some
        THEN Invoke(self.handler, ctx, Mouse(opt.value.button, opt.value.x, opt.value.y))
        ELSE NotHandled(ctx)

MouseUp_handle_event(self, ctx, box) ==
    LET opt == ok(downcast_ref(box, "MouseUpEvent"))
    IN  \* .map_or(false, |event| ..)
        IF opt.is_some
        THEN Invoke(self.handler, ctx, Mouse(opt.value.button, opt.value.x, opt.value.y))
        ELSE NotHandled(ctx)

MouseUp_handles_event(self, box) == is_type(box, "MouseUpEvent")

\* Variant: x and y are exchanged in the Point handed to the callback.
MouseMove_handle_event_swapped(self, ctx, box) ==
    LET opt == ok(downcast_ref(box, "MouseMoveEvent"))
    IN  \* .map_or(false, |event| ..)
        IF opt.is_some
        THEN Invoke(self.handler, ctx, Point_new(opt.value.y, opt.value.x))
        ELSE NotHandled(ctx)

MouseMove_handle_event(self, ctx, box) ==
    LET opt == ok(downcast_ref(box, "MouseMoveEvent"))
    IN  \* .map_or(false, |event| ..)
        IF opt.is_some
        THEN Invoke(self.handler, ctx, Point_new(opt.value.x, opt.value.y))
        ELSE NotHandled(ctx)

MouseMove_handles_event(self, box) == is_type(box, "MouseMoveEvent")

Scroll_handle_event(self, ctx, box) ==
    LET opt == ok(downcast_ref(box, "ScrollEvent"))
    IN  \* .map_or(false, |event| ..)
        IF opt.is_some
        THEN Invoke(self.handler, ctx, Point_new(opt.value.delta.x, opt.value.delta.y))
        ELSE NotHandled(ctx)

\* Variant: the scroll handler tests for the MouseMoveEvent.
Scroll_handles_event_mouse_move(self, box) == is_type(box, "MouseMoveEvent")

Scroll_handles_event(self, box) == is_type(box, "ScrollEvent")

\* Dynamic dispatch through Rc<dyn EventHandler>.
handle_event(self, ctx, box) ==
    CASE self.kind = "Click" -> Click_handle_event(self, ctx, box)
      [] self.kind = "MouseDown" -> MouseDown_handle_event(self, ctx, box)
      [] self.kind = "GlobalMouseUp" -> GlobalMouseUp_handle_event(self, ctx, box)
      [] self.kind = "MouseUp" -> MouseUp_handle_event(self, ctx, box)
      [] self.kind = "MouseMove" -> MouseMove_handle_event(self, ctx, box)
      [] self.kind = "Scroll" -> Scroll_handle_event(self, ctx, box)

handles_event(self, box) ==
    CASE self.kind = "Click" -> Click_handles_event(self, box)
      [] self.kind = "MouseDown" -> MouseDown_handles_event(self, box)
      [] self.kind = "GlobalMouseUp" -> GlobalMouseUp_handles_event(self, box)
      [] self.kind = "MouseUp" -> MouseUp_handles_event(self, box)
      [] self.kind = "MouseMove" -> MouseMove_handles_event(self, box)
      [] self.kind = "Scroll" -> Scroll_handles_event(self, box)

\* ------------------------------------------------------------- registration
\* Widget::insert_handler: pushes the handler and returns the widget.
insert_handler(self, handler) ==
    [self EXCEPT !.handlers = Append(self.handlers, handler)]

on_click(self, handler) == insert_handler(self, ClickEventHandler(handler))

on_mouse_down(self, handler) == insert_handler(self, MouseDownEventHandler(handler))

on_mouse_up(self, handler) == insert_handler(self, MouseUpEventHandler(handler))

on_global_mouse_up(self, handler) ==
    insert_handler(self, GlobalMouseUpEventHandler(handler))

on_mouse_move(self, handler) == insert_handler(self, MouseMoveEventHandler(handler))

\* Variant: on_scroll attaches a mouse up handler.
on_scroll_as_mouse_up(self, handler) ==
    insert_handler(self, MouseUpEventHandler(handler))

on_scroll(self, handler) == insert_handler(self, ScrollEventHandler(handler))

\* ------------------------------------------------------------------ actions
Init ==
    /\ template = NoTemplate
    /\ registered = <<>>
    /\ event = None
    /\ state_context = 0
    /\ last = None
    /\ widget = [enabled |-> TRUE,
                 bounds |-> Rectangle_new(0, 0, 0, 0),
                 position |-> Point_new(0, 0)]
    /\ edge_inclusive = TRUE
    /\ mouse_position = None
    /\ hit = None
    /\ widget_before = widget

Registered(method, handler) ==
    /\ event = None
    /\ registered' = Append(registered, <<method, handler>>)
    /\ UNCHANGED <<event, state_context, last>>
    /\ UNCHANGED geom_vars

OnClick ==
    /\ Len(template.handlers) < MaxHandlers
    /\ \E h \in BoolCallbacks :
        /\ template' = on_click(template, h)
        /\ Registered("on_click", h)

OnMouseDown ==
    /\ Len(template.handlers) < MaxHandlers
    /\ \E h \in BoolCallbacks :
        /\ template' = on_mouse_down(template, h)
        /\ Registered("on_mouse_down", h)

OnMouseUp ==
    /\ Len(template.handlers) < MaxHandlers
    /\ \E h \in BoolCallbacks :
        /\ template' = on_mouse_up(template, h)
        /\ Registered("on_mouse_up", h)

OnGlobalMouseUp ==
    /\ Len(template.handlers) < MaxHandlers
    /\ \E h \in UnitCallbacks :
        /\ template' = on_global_mouse_up(template, h)
        /\ Registered("on_global_mouse_up", h)

OnMouseMove ==
    /\ Len(template.handlers) < MaxHandlers
    /\ \E h \in BoolCallbacks :
        /\ template' = on_mouse_move(template, h)
        /\ Registered("on_mouse_move", h)

OnScroll ==
    /\ Len(template.handlers) < MaxHandlers
    /\ \E h \in BoolCallbacks :
        /\ template' = on_scroll(template, h)
        /\ Registered("on_scroll", h)

\* The delivery engine starts a dispatch pass with a container; registration
\* is over by then.  A behaviour follows one pass: handlers keep no state from
\* one pass to the next.
NewEvent ==
    /\ event = None
    /\ \E payload \in Payloads :
        /\ event' = Some(EventBox_new(payload))
        /\ last' = None
        /\ UNCHANGED <<template, registered, state_context>>
        /\ UNCHANGED geom_vars

\* The delivery engine offers the container to the next attached handler, in
\* registration order: it asks handles_event and calls handle_event, whatever
\* the answer.
HandleEvent ==
    LET i == IF last = None THEN 1 ELSE last[1].index + 1 IN
    /\ event /= None
    /\ i <= Len(template.handlers)
    /\ LET self == template.handlers[i]
           box == event[1]
           out == handle_event(self, state_context, box)
       IN  /\ last' = Some([index |-> i,
                            self |-> self,
                            event |-> box,
                            ctx_before |-> state_context,
                            handles |-> handles_event(self, box),
                            result |-> out.result,
                            calls |-> out.calls])
           /\ state_context' = out.state_context
           /\ UNCHANGED <<template, registered, event>>
           /\ UNCHANGED geom_vars

Next ==
    \/ OnClick
    \/ OnMouseDown
    \/ OnMouseUp
    \/ OnGlobalMouseUp
    \/ OnMouseMove
    \/ OnScroll
    \/ NewEvent
    \/ HandleEvent

Spec == Init /\ [][Next]_vars

\* ------------------------------------------------------------------- claims
\* The payload type each handler kind is written for, and the handler kind each
\* registration method is documented to attach.
HandlerKinds == {"Click", "MouseDown", "MouseUp", "GlobalMouseUp", "MouseMove", "Scroll"}

LocalKinds == HandlerKinds \ {"GlobalMouseUp"}

PayloadOf(kind) ==
    CASE kind = "Click" -> "ClickEvent"
      [] kind = "MouseDown" -> "MouseDownEvent"
      [] kind = "MouseUp" -> "MouseUpEvent"
      [] kind = "GlobalMouseUp" -> "GlobalMouseUpEvent"
      [] kind = "MouseMove" -> "MouseMoveEvent"
      [] kind = "Scroll" -> "ScrollEvent"

KindOfMethod(method) ==
    CASE method = "on_click" -> "Click"
      [] method = "on_mouse_down" -> "MouseDown"
      [] method = "on_mouse_up" -> "MouseUp"
      [] method = "on_global_mouse_up" -> "GlobalMouseUp"
      [] method = "on_mouse_move" -> "MouseMove"
      [] method = "on_scroll" -> "Scroll"

\* The callback argument the adaptation table prescribes for a payload.
AdaptedArgument(payload) ==
    CASE payload.ty = "ClickEvent" -> payload.position
      [] payload.ty \in {"MouseDownEvent", "MouseUpEvent", "GlobalMouseUpEvent"} ->
            [button |-> payload.button, x |-> payload.x, y |-> payload.y]
      [] payload.ty = "MouseMoveEvent" -> [x |-> payload.x, y |-> payload.y]
      [] payload.ty = "ScrollEvent" -> [x |-> payload.delta.x, y |-> payload.delta.y]

\* The payload the last offered container was constructed from is of the type
\* the handler it was offered to is written for.
Matches(c) == c.event.event.ty = PayloadOf(c.self.kind)

\* C1: handle_event of a GlobalMouseUp handler on a GlobalMouseUpEvent container
\* invokes the callback exactly once, with Mouse{button,x,y}, and returns false
\* whatever the callback does to the StatesContext; no handler of any kind
\* reports a GlobalMouseUpEvent container as consumed.
C1_GlobalMouseUpNeverConsumed ==
    last /= None =>
        LET c == last[1] IN
        c.event.event.ty = "GlobalMouseUpEvent" =>
            /\ c.result = FALSE
            /\ c.self.kind = "GlobalMouseUp" =>
                /\ Len(c.calls) = 1
                /\ c.calls[1] = AdaptedArgument(c.event.event)

C1_Witness ==
    /\ last /= None
    /\ last[1].event.event.ty = "GlobalMouseUpEvent"
    /\ last[1].self.kind = "GlobalMouseUp"
    /\ last[1].self.handler.writes
    /\ state_context /= last[1].ctx_before
    /\ last[1].result = FALSE

C3_LocalHandlerForwards ==
    last /= None =>
        LET c == last[1] IN
        (c.self.kind \in LocalKinds /\ Matches(c)) =>
            /\ c.calls = <<AdaptedArgument(c.event.event)>>
            /\ c.result = Invoke(c.self.handler, c.ctx_before,
                                 AdaptedArgument(c.event.event)).result

C3_Witness ==
    /\ last /= None
    /\ last[1].self.kind = "MouseDown"
    /\ last[1].event.event = MouseDownEvent("Left", MaxCoord, 0)
    /\ last[1].self.handler.ret = "x_is_max"
    /\ last[1].result = TRUE

C5_DowncastIffIsType ==
    /\ event /= None =>
        \A T \in EventTypes :
            LET res == downcast_ref(event[1], T) IN
            /\ res.is_ok <=> is_type(event[1], T)
            /\ res.is_ok => res.value = event[1].event
            /\ ~res.is_ok => res.value = "WrongType"
    /\ last /= None =>
        /\ (Len(last[1].calls) > 0) <=> last[1].handles
        /\ event = Some(last[1].event)

C5_Witness ==
    /\ last /= None
    /\ last[1].index = 2
    /\ last[1].self.kind = "Scroll"
    /\ last[1].handles
    /\ Len(last[1].calls) = 1
    /\ template.handlers[1].kind = "MouseMove"

\* The point last tested lies in the rectangle of the bounds' width and height
\* whose origin is the widget's position.
InPositionedBounds ==
    LET p == mouse_position[1]
        left == widget.position.x
        top == widget.position.y
        right == left + widget.bounds.width
        bottom == top + widget.bounds.height
    IN  /\ left <= p.x
        /\ top <= p.y
        /\ IF edge_inclusive THEN p.x <= right /\ p.y <= bottom
                             ELSE p.x < right /\ p.y < bottom

\* C6: for a widget that is not enabled, check_mouse_condition returns false for
\* every point, whatever the widget's bounds and position.
C6_DisabledNeverHit ==
    (hit /= None /\ ~widget.enabled) => hit[1] = FALSE

C6_Witness ==
    /\ hit = Some(FALSE)
    /\ ~widget.enabled
    /\ InPositionedBounds

\* C7: check_mouse_condition returns true iff the widget is enabled and the point
\* lies in the rectangle of the bounds' width and height placed at the widget's
\* position; the bounds' own origin does not influence the result; the widget
\* snapshot is as it was before the call.
C7_HitIffEnabledAndInside ==
    hit /= None =>
        /\ hit[1] <=> (widget.enabled /\ InPositionedBounds)
        /\ \A ox \in BoundsOrigins, oy \in BoundsOrigins :
              check_mouse_condition(mouse_position[1],
                  [widget EXCEPT !.bounds.x = ox, !.bounds.y = oy],
                  edge_inclusive) = hit[1]
        /\ widget = widget_before

C7_Witness ==
    /\ hit = Some(TRUE)
    /\ widget.bounds.x /= 0
    /\ widget.bounds.y /= 0
    /\ widget.position.x /= 0

IsCenter ==
    /\ mouse_position[1].x = widget.position.x + widget.bounds.width \div 2
    /\ mouse_position[1].y = widget.position.y + widget.bounds.height \div 2

IsUpperLeftOutside ==
    /\ mouse_position[1].x = widget.position.x - Unit
    /\ mouse_position[1].y = widget.position.y - Unit

\* C8 as stated: for every enabled widget, the center (px + w/2, py + h/2)
\* satisfies check_mouse_condition and the point (px - 1, py - 1) does not.
C8_CenterAlwaysHit ==
    (hit /= None /\ widget.enabled) =>
        /\ IsCenter => hit[1] = TRUE
        /\ IsUpperLeftOutside => hit[1] = FALSE

\* C8 amended: for every enabled widget whose bounds have a positive width and a
\* positive height, the center (px + w/2, py + h/2) satisfies
\* check_mouse_condition; for every enabled widget the point (px - 1, py - 1)
\* does not.
C8_CenterHitWhenPositiveSize ==
    (hit /= None /\ widget.enabled) =>
        /\ (IsCenter /\ widget.bounds.width > 0 /\ widget.bounds.height > 0)
              => hit[1] = TRUE
        /\ IsUpperLeftOutside => hit[1] = FALSE

C8_Witness ==
    /\ hit = Some(TRUE)
    /\ widget.enabled
    /\ widget.bounds.width > 0
    /\ widget.bounds.height > 0
    /\ widget.position.x > 0
    /\ IsCenter

\* C9: for an enabled widget whose bounds have a negative width or a negative
\* height, check_mouse_condition returns false for every point.
C9_NegativeSizeNeverHit ==
    (/\ hit /= None
     /\ widget.enabled
     /\ (widget.bounds.width < 0 \/ widget.bounds.height < 0)) => hit[1] = FALSE

C9_Witness ==
    /\ hit = Some(FALSE)
    /\ widget.enabled
    /\ widget.bounds.width < 0
    /\ widget.bounds.height > 0
    /\ mouse_position[1] = widget.position

====
